---- MODULE Spec2Model ----
(***************************************************************************)
(* Model of src/stream_unified.py: the region extractor                    *)
(* (StreamCapture._extract_region), and the capture engine (StreamCapture: *)
(* start, stop, _capture_loop, get_frame) with its bounded hand-off queue. *)
(*                                                                         *)
(* The specifications share the variables:                                 *)
(*   SpecExtract  - _extract_region applied to one region drawn from a     *)
(*                  bounded set (pure-function claims);                    *)
(*   Spec         - the capture engine driven by one caller thread that    *)
(*                  issues start(), stop() and get_frame() in any order,   *)
(*                  interleaved with the sampling threads, statement by    *)
(*                  statement.  FairSpec adds the scheduler's fairness;    *)
(*   SpecRun      - the engine as run_interactive drives it;               *)
(*   SpecRender   - OverlayRenderer.render applied to one frame;           *)
(*   SpecCmd      - MovementController commands applied to the config;     *)
(*   SpecLive     - run_interactive with commands that change the config   *)
(*                  while the sampling loop runs, on a full-size screen;   *)
(*   SpecPersist  - ConfigManager.save and load against the config file;   *)
(*   SpecMain     - run_interactive from start() to the end of its finally *)
(*                  clause, the operator pressing q.  FairSpecMain adds    *)
(*                  the scheduler's fairness;                              *)
(*   SpecSnap     - the running loop, the operator pressing the space bar; *)
(*   SpecKeys     - the config from the startup load through the keys of   *)
(*                  _handle_input, calibrate and auto-detect included;     *)
(*   SpecTorn     - the sampling loop and resize/reset one statement at a  *)
(*                  time, reading and writing the shared config.           *)
(***************************************************************************)
EXTENDS Integers, Sequences, FiniteSets, TLC

VARIABLES
    config,          \* StreamConfig: x, y, width, height (and, where the
                     \* specification uses them, the other fields)
    full_frame,      \* the frame handed to _extract_region (SpecExtract)
    extracted,       \* outcome of _extract_region (SpecExtract)
    frame_queue,     \* StreamCapture.frame_queue, oldest entry first
    is_running,      \* StreamCapture.is_running
    capture_thread,  \* StreamCapture._capture_thread: 0 = None, else thread id
    threads,         \* per sampling thread: position in _capture_loop, local 'stream'
    main_pc,         \* the caller thread: "idle" or "joining" (inside stop())
    polled,          \* what the caller's last call returned, when it was
                     \* get_frame(): None or a frame; NotPolled after other calls
    published,       \* history: number of completed put()s, saturating
    heap,            \* frame buffers by address: heap[a] is the content of buffer a
    frame_ref,       \* address of the frame handed to render (SpecRender)
    display_ref,     \* address of the frame render returned, 0 before the call
    cmds,            \* history: number of commands executed so far
    written,         \* history: the region as the last command (or __init__) left it
    file,            \* the document at config_file: None when there is no such file
    ret,             \* [returned |-> what ConfigManager.load returned]: None
                     \* before the call
    snapshot,        \* the image the last snapshot wrote: None when none was written
    key              \* the key waiting at cv2.waitKey: "none" when no key is pressed

\* variables of the pure-function specifications and of the command history
disk_vars == <<file, ret, snapshot, key>>
pure_vars == <<full_frame, extracted, heap, frame_ref, display_ref, disk_vars>>
cmd_vars == <<cmds, written>>

vars == <<config, full_frame, extracted, frame_queue, is_running,
          capture_thread, threads, main_pc, polled, published,
          heap, frame_ref, display_ref, cmds, written,
          file, ret, snapshot, key>>

----------------------------------------------------------------------------
(* Bounds of the model *)

\* pyautogui.size(): the screen is ScreenH rows by ScreenW columns
ScreenW == 4
ScreenH == 3
\* regions drawn for _extract_region: -MaxCoord <= x, y <= MaxCoord, 1 <= width, height <= MaxDim
MaxCoord == 5
MaxDim == 5
\* sampling threads that start() may create in one run
MaxThreads == 2
\* the history counter 'published' saturates here; a queued frame is tagged
\* with its publication number, so frames published later are tagged alike
MaxPublished == 32
\* commands executed in one run of SpecCmd and SpecLive
MaxCmds == 2
\* move(dx, dy) is called with -MaxStep <= dx, dy <= MaxStep
MaxStep == 1
\* SpecLive: pyautogui.size() of a full-size screen
LiveScreenW == 1920
LiveScreenH == 1080
\* SpecLive: keys are handled until this many frames have been published
MaxLiveFrames == 1
\* SpecTorn: commands the main loop runs statement by statement
MaxTornCmds == 1

----------------------------------------------------------------------------
(* Program constants *)

\* a queue one slot larger
QueueMaxSize_31 == 30 + 1

\* queue.Queue(maxsize=30)
QueueMaxSize == 30


\* the region the engine extracts in Spec: StreamConfig's default region
\* (40, 330, 340, 230 on a full-size screen) placed inside the model's screen
EngineRegion == [x |-> 1, y |-> 1, width |-> 2, height |-> 2]

\* class MovementMode(Enum) and class OverlayMode(Enum): member name |-> value
MovementMode == [FINE |-> 1, NORMAL |-> 5, FAST |-> 10, TURBO |-> 20]
OverlayMode == [NONE |-> 0, MINIMAL |-> 1, STANDARD |-> 2, FULL |-> 3, DEBUG |-> 4]

\* list(MovementMode): the members in definition order
MovementModes == <<"FINE", "NORMAL", "FAST", "TURBO">>

\* MovementController.movement_speeds: pixels per step of each mode
movement_speeds == [FINE |-> 1, NORMAL |-> 5, FAST |-> 10, TURBO |-> 20]

\* StreamConfig(): the dataclass defaults
DefaultConfig ==
    [x |-> 40, y |-> 330, width |-> 340, height |-> 230,
     overlay_mode |-> "STANDARD", movement_mode |-> "NORMAL",
     auto_save |-> TRUE, config_file |-> "stream_config.json"]

\* the region fields of a config
RegionOf(cfg) == [x |-> cfg.x, y |-> cfg.y, width |-> cfg.width, height |-> cfg.height]

Black == 0
None == [none |-> TRUE]
NotPolled == [notpolled |-> TRUE]

Max(a, b) == IF a >= b THEN a ELSE b
Min(a, b) == IF a <= b THEN a ELSE b

----------------------------------------------------------------------------
(* numpy arrays: shape0 rows, shape1 columns, data[i][j] for 1-based i, j. *)
(* The three colour channels of a pixel are one value; 0 is black.         *)

\* np.zeros((rows, cols, 3), dtype=np.uint8)
Zeros(rows, cols) ==
    [shape0 |-> rows, shape1 |-> cols,
     data |-> [i \in 1..rows |-> [j \in 1..cols |-> Black]]]

\* Python's slice.indices(n) for a[start:stop]: a negative bound counts from
\* the end, both bounds are clipped to 0..n, and the slice is empty when
\* stop <= start.  Returns the 0-based half-open interval <<lo, hi>>.
SliceIndex(i, n) == IF i < 0 THEN Max(i + n, 0) ELSE Min(i, n)
SliceIndices(start, stop, n) ==
    LET lo == SliceIndex(start, n)
        hi == SliceIndex(stop, n)
    IN  <<lo, Max(lo, hi)>>

\* frame[r1:r2, c1:c2]
Slice2D(a, r1, r2, c1, c2) ==
    LET r == SliceIndices(r1, r2, a.shape0)
        c == SliceIndices(c1, c2, a.shape1)
    IN  [shape0 |-> r[2] - r[1], shape1 |-> c[2] - c[1],
         data |-> [i \in 1..(r[2] - r[1]) |->
                     [j \in 1..(c[2] - c[1]) |-> a.data[r[1] + i][c[1] + j]]]]

\* padded[:src.shape0, :src.shape1] = src.  The target block is the slice
\* of 'padded'; numpy raises ValueError unless every dimension of src
\* equals the block's or is 1 (broadcast).
Broadcastable(s, t) == s = t \/ s = 1
AssignBlock(padded, src) ==
    LET r == SliceIndices(0, src.shape0, padded.shape0)
        c == SliceIndices(0, src.shape1, padded.shape1)
        t0 == r[2] - r[1]
        t1 == c[2] - c[1]
    IN  IF Broadcastable(src.shape0, t0) /\ Broadcastable(src.shape1, t1)
        THEN [raised |-> FALSE,
              value |-> [padded EXCEPT !.data =
                  [i \in 1..padded.shape0 |-> [j \in 1..padded.shape1 |->
                      IF i <= t0 /\ j <= t1
                      THEN src.data[IF src.shape0 = 1 THEN 1 ELSE i]
                                   [IF src.shape1 = 1 THEN 1 ELSE j]
                      ELSE padded.data[i][j]]]]]
        ELSE [raised |-> TRUE, value |-> None]

\* _extract_region slicing from column 0 and row 0 instead of max(0, x), max(0, y)
extract_region_from_origin(frame, cfg) ==
    LET y2 == Min(frame.shape0, cfg.y + cfg.height)
        x2 == Min(frame.shape1, cfg.x + cfg.width)
        stream == Slice2D(frame, 0, y2, 0, x2)
    IN  IF stream.shape0 < cfg.height \/ stream.shape1 < cfg.width
        THEN AssignBlock(Zeros(cfg.height, cfg.width), stream)
        ELSE [raised |-> FALSE, value |-> stream]

\* _extract_region keeping every screen pixel at its place inside the region:
\* output (i, j) is screen pixel (y + i, x + j), black where there is none
extract_region_aligned(frame, cfg) ==
    [raised |-> FALSE,
     value |-> [shape0 |-> cfg.height, shape1 |-> cfg.width,
                data |-> [i \in 1..cfg.height |-> [j \in 1..cfg.width |->
                    IF /\ cfg.y + i \in 1..frame.shape0
                       /\ cfg.x + j \in 1..frame.shape1
                    THEN frame.data[cfg.y + i][cfg.x + j]
                    ELSE Black]]]]

\* StreamCapture._extract_region(frame) with self.config = cfg
_extract_region(frame, cfg) ==
    LET y1 == Max(0, cfg.y)
        y2 == Min(frame.shape0, cfg.y + cfg.height)
        x1 == Max(0, cfg.x)
        x2 == Min(frame.shape1, cfg.x + cfg.width)
        stream == Slice2D(frame, y1, y2, x1, x2)
    IN  IF stream.shape0 < cfg.height \/ stream.shape1 < cfg.width
        THEN AssignBlock(Zeros(cfg.height, cfg.width), stream)
        ELSE [raised |-> FALSE, value |-> stream]

\* The screen: every pixel distinct and none of them black
Screen ==
    [shape0 |-> ScreenH, shape1 |-> ScreenW,
     data |-> [i \in 1..ScreenH |-> [j \in 1..ScreenW |-> (i - 1) * ScreenW + j]]]

Regions ==
    [x : -MaxCoord..MaxCoord, y : -MaxCoord..MaxCoord,
     width : 1..MaxDim, height : 1..MaxDim]

----------------------------------------------------------------------------
(* The capture engine right after StreamCapture.__init__ *)

NoThread == [pc |-> "unborn", stream |-> None]

EngineInit ==
    /\ frame_queue = <<>>
    /\ is_running = FALSE
    /\ capture_thread = 0
    /\ threads = [t \in 1..MaxThreads |-> NoThread]
    /\ main_pc = "idle"
    /\ polled = NotPolled
    /\ published = 0

engine_vars == <<frame_queue, is_running, capture_thread, threads, main_pc,
                 polled, published>>

----------------------------------------------------------------------------
(* SpecExtract: one call of _extract_region on a region from Regions *)

\* the variables of the other specifications, at rest
RenderIdle == heap = <<>> /\ frame_ref = 0 /\ display_ref = 0
CmdIdle == cmds = 0 /\ written = None
DiskIdle == file = None /\ ret = None /\ snapshot = None /\ key = "none"

InitExtract ==
    /\ config \in Regions
    /\ full_frame = Screen
    /\ extracted = None
    /\ EngineInit
    /\ DiskIdle
    /\ RenderIdle
    /\ CmdIdle

ExtractRegion ==
    /\ extracted = None
    /\ extracted' = _extract_region(full_frame, config)
    /\ UNCHANGED <<config, full_frame, heap, frame_ref, display_ref, disk_vars>>
    /\ UNCHANGED cmd_vars
    /\ UNCHANGED engine_vars

NextExtract == ExtractRegion

SpecExtract == InitExtract /\ [][NextExtract]_vars

----------------------------------------------------------------------------
(* The capture engine: StreamCapture *)

Init ==
    /\ config = EngineRegion
    /\ full_frame = Screen
    /\ extracted = None
    /\ EngineInit
    /\ DiskIdle
    /\ RenderIdle
    /\ CmdIdle

Unborn == {t \in 1..MaxThreads : threads[t].pc = "unborn"}

\* StreamCapture.start(): no guard on the engine's state; a new Thread
\* replaces whatever _capture_thread referred to
start ==
    /\ main_pc = "idle"
    /\ Unborn # {}
    /\ LET t == CHOOSE u \in Unborn : \A v \in Unborn : u <= v
       IN  /\ is_running' = TRUE
           /\ threads' = [threads EXCEPT ![t].pc = "while"]
           /\ capture_thread' = t
    /\ polled' = NotPolled
    /\ UNCHANGED <<config, pure_vars, cmd_vars, frame_queue, main_pc,
                   published>>

\* StreamCapture.stop(), first statement: is_running = False; returns at
\* once when _capture_thread is None, else goes on to join()
stop_begin ==
    /\ main_pc = "idle"
    /\ is_running' = FALSE
    /\ polled' = NotPolled
    /\ main_pc' = IF capture_thread = 0 THEN "idle" ELSE "joining"
    /\ UNCHANGED <<config, pure_vars, cmd_vars, frame_queue, capture_thread,
                   threads, published>>

\* join() returning without waiting for the thread to finish
stop_join_nowait ==
    /\ main_pc = "joining"
    /\ main_pc' = "idle"
    /\ UNCHANGED <<config, pure_vars, cmd_vars, frame_queue, is_running,
                   capture_thread, threads, polled, published>>

\* StreamCapture.stop(), self._capture_thread.join(): no timeout, returns
\* when the thread has finished
stop_join ==
    /\ main_pc = "joining"
    /\ threads[capture_thread].pc = "dead"
    /\ main_pc' = "idle"
    /\ UNCHANGED <<config, pure_vars, cmd_vars, frame_queue, is_running,
                   capture_thread, threads, polled,
                   published>>

\* get_nowait handing out the newest entry instead of the oldest
get_nowait_newest(q) ==
    IF q = <<>> THEN [value |-> None, queue |-> q]
                ELSE [value |-> q[Len(q)], queue |-> SubSeq(q, 1, Len(q) - 1)]

\* queue.Queue.get_nowait() as get_frame uses it: the oldest entry, or
\* queue.Empty (turned into None) when there is none
get_nowait(q) ==
    IF q = <<>> THEN [value |-> None, queue |-> q]
                ELSE [value |-> Head(q), queue |-> Tail(q)]

\* StreamCapture.get_frame()
get_frame ==
    /\ main_pc = "idle"
    /\ polled' = get_nowait(frame_queue).value
    /\ frame_queue' = get_nowait(frame_queue).queue
    /\ UNCHANGED <<config, pure_vars, cmd_vars, is_running, capture_thread,
                   threads, main_pc, published>>

\* _capture_loop, "while self.is_running"
loop_while(t) ==
    /\ threads[t].pc = "while"
    /\ threads' = [threads EXCEPT ![t].pc =
                       IF is_running THEN "capture" ELSE "dead"]
    /\ UNCHANGED <<config, pure_vars, cmd_vars, frame_queue, is_running,
                   capture_thread, main_pc, polled,
                   published>>

\* _capture_loop, screenshot and _extract_region: the collaborator either
\* raises or delivers the screen; an exception leads to the except clause
loop_capture(t) ==
    /\ threads[t].pc = "capture"
    /\ \E shot_ok \in BOOLEAN :
        LET r == _extract_region(Screen, config)
        IN  threads' = [threads EXCEPT ![t] =
                IF shot_ok /\ ~r.raised
                THEN [pc |-> "full", stream |-> r.value]
                ELSE [pc |-> "except", stream |-> None]]
    /\ UNCHANGED <<config, pure_vars, cmd_vars, frame_queue, is_running,
                   capture_thread, main_pc, polled,
                   published>>

\* _capture_loop, "if self.frame_queue.full()"
loop_full(t) ==
    /\ threads[t].pc = "full"
    /\ threads' = [threads EXCEPT ![t].pc =
                       IF Len(frame_queue) >= QueueMaxSize THEN "get" ELSE "put"]
    /\ UNCHANGED <<config, pure_vars, cmd_vars, frame_queue, is_running,
                   capture_thread, main_pc, polled,
                   published>>

\* the eviction dropping the newest entry instead of the oldest
loop_get_newest(t) ==
    /\ threads[t].pc = "get"
    /\ frame_queue # <<>>
    /\ frame_queue' = SubSeq(frame_queue, 1, Len(frame_queue) - 1)
    /\ threads' = [threads EXCEPT ![t].pc = "put"]
    /\ UNCHANGED <<config, pure_vars, cmd_vars, is_running, capture_thread,
                   main_pc, polled, published>>

\* _capture_loop, "self.frame_queue.get()": a blocking get, it waits while
\* the queue is empty
loop_get(t) ==
    /\ threads[t].pc = "get"
    /\ frame_queue # <<>>
    /\ frame_queue' = Tail(frame_queue)
    /\ threads' = [threads EXCEPT ![t].pc = "put"]
    /\ UNCHANGED <<config, pure_vars, cmd_vars, is_running, capture_thread,
                   main_pc, polled, published>>

\* queue.Queue.put(item) on a queue of maxsize 30: waits while the queue is full
CanPut(q) == Len(q) < QueueMaxSize

\* _capture_loop, "self.frame_queue.put(stream)"
loop_put(t) ==
    /\ threads[t].pc = "put"
    /\ CanPut(frame_queue)
    /\ published' = Min(published + 1, MaxPublished)
    /\ frame_queue' = Append(frame_queue,
                             [id |-> published', frame |-> threads[t].stream])
    /\ threads' = [threads EXCEPT ![t] = [pc |-> "while", stream |-> None]]
    /\ UNCHANGED <<config, pure_vars, cmd_vars, is_running, capture_thread,
                   main_pc, polled>>

\* the except clause ending the loop instead of going back to the test
loop_except_fatal(t) ==
    /\ threads[t].pc = "except"
    /\ threads' = [threads EXCEPT ![t].pc = "dead"]
    /\ UNCHANGED <<config, pure_vars, cmd_vars, frame_queue, is_running,
                   capture_thread, main_pc, polled,
                   published>>

\* _capture_loop, except clause: print and time.sleep(0.1)
loop_except(t) ==
    /\ threads[t].pc = "except"
    /\ threads' = [threads EXCEPT ![t].pc = "while"]
    /\ UNCHANGED <<config, pure_vars, cmd_vars, frame_queue, is_running,
                   capture_thread, main_pc, polled,
                   published>>

\* one statement of StreamCapture._capture_loop in thread t
_capture_loop(t) ==
    \/ loop_while(t)
    \/ loop_capture(t)
    \/ loop_full(t)
    \/ loop_get(t)
    \/ loop_put(t)
    \/ loop_except(t)

Next ==
    \/ start
    \/ stop_begin
    \/ stop_join
    \/ get_frame
    \/ \E t \in 1..MaxThreads : _capture_loop(t)

Spec == Init /\ [][Next]_vars

\* The scheduler runs every thread that can take a step, and a join() whose
\* thread has finished returns
FairSpec ==
    /\ Spec
    /\ \A t \in 1..MaxThreads : WF_vars(_capture_loop(t))
    /\ WF_vars(stop_join)

----------------------------------------------------------------------------
(* SpecRun: the engine as UnifiedStreamSystem.run_interactive drives it:   *)
(* start() once, get_frame() polls while the loop runs, stop() once in the *)
(* finally clause.                                                         *)

run_start == capture_thread = 0 /\ start
run_poll == is_running /\ get_frame
run_stop == is_running /\ stop_begin

NextRun ==
    \/ run_start
    \/ run_poll
    \/ run_stop
    \/ stop_join
    \/ \E t \in 1..MaxThreads : _capture_loop(t)

SpecRun == Init /\ [][NextRun]_vars

FairSpecRun ==
    /\ SpecRun
    /\ \A t \in 1..MaxThreads : WF_vars(_capture_loop(t))
    /\ WF_vars(stop_join)

----------------------------------------------------------------------------
(* MovementController and the speed key of _handle_input, as functions     *)
(* from the config before the call to the config after it                  *)

\* move adding the bare step count, not scaled by the speed of the mode
move_unscaled(cfg, dx, dy, relative) ==
    IF relative
    THEN [cfg EXCEPT !.x = cfg.x + dx, !.y = cfg.y + dy]
    ELSE [cfg EXCEPT !.x = dx, !.y = dy]

\* MovementController.move(dx, dy, relative)
move(cfg, dx, dy, relative) ==
    IF relative
    THEN [cfg EXCEPT !.x = cfg.x + dx * movement_speeds[cfg.movement_mode],
                     !.y = cfg.y + dy * movement_speeds[cfg.movement_mode]]
    ELSE [cfg EXCEPT !.x = dx, !.y = dy]

\* resize without the floor of 50
resize_unclamped(cfg, dw, dh) ==
    [cfg EXCEPT !.width = cfg.width + dw, !.height = cfg.height + dh]

\* resize with its deltas scaled by the speed of the active mode, as move does
resize_scaled(cfg, dw, dh) ==
    [cfg EXCEPT !.width = Max(50, cfg.width + dw * movement_speeds[cfg.movement_mode]),
                !.height = Max(50, cfg.height + dh * movement_speeds[cfg.movement_mode])]

\* MovementController.resize(dw, dh)
resize(cfg, dw, dh) ==
    [cfg EXCEPT !.width = Max(50, cfg.width + dw),
                !.height = Max(50, cfg.height + dh)]

\* reset restoring the speed and overlay defaults as well as the region
reset_all(cfg) ==
    [cfg EXCEPT !.x = 40, !.y = 330, !.width = 340, !.height = 230,
                !.overlay_mode = "STANDARD", !.movement_mode = "NORMAL"]

\* MovementController.reset()
reset(cfg) == [cfg EXCEPT !.x = 40, !.y = 330, !.width = 340, !.height = 230]

\* _handle_input, key Tab: modes[(modes.index(mode) + 1) % len(modes)]
ModeIndex(m) == CHOOSE i \in 1..Len(MovementModes) : MovementModes[i] = m

\* the speed key stopping at the last mode instead of wrapping
cycle_speed_nowrap(cfg) ==
    [cfg EXCEPT !.movement_mode =
        MovementModes[Min(ModeIndex(cfg.movement_mode) + 1, Len(MovementModes))]]

cycle_speed(cfg) ==
    [cfg EXCEPT !.movement_mode =
        MovementModes[(((ModeIndex(cfg.movement_mode) - 1) + 1) % Len(MovementModes)) + 1]]

\* a command of the main loop replaces the config by newcfg
Command(newcfg) ==
    /\ cmds < MaxCmds
    /\ config' = newcfg
    /\ cmds' = cmds + 1
    /\ written' = RegionOf(newcfg)

Steps == -MaxStep..MaxStep
ResizeDeltas == {-300, -10, 10}

cmd_move(dx, dy) ==
    /\ Command(move(config, dx, dy, TRUE))
    /\ UNCHANGED <<pure_vars, engine_vars>>

cmd_resize(dw, dh) ==
    /\ Command(resize(config, dw, dh))
    /\ UNCHANGED <<pure_vars, engine_vars>>

cmd_reset ==
    /\ Command(reset(config))
    /\ UNCHANGED <<pure_vars, engine_vars>>

cmd_cycle_speed ==
    /\ Command(cycle_speed(config))
    /\ UNCHANGED <<pure_vars, engine_vars>>

\* SpecCmd: the commands applied, in any order, to a config as __init__
\* leaves it: the defaults, or the values of a persisted record
StartConfigs ==
    {[DefaultConfig EXCEPT !.x = px, !.width = w, !.movement_mode = m] :
        px \in {5, 40}, w \in {60, 340}, m \in DOMAIN MovementMode}

InitCmd ==
    /\ config \in StartConfigs
    /\ cmds = 0
    /\ written = RegionOf(config)
    /\ full_frame = Screen
    /\ extracted = None
    /\ RenderIdle
    /\ EngineInit
    /\ DiskIdle

NextCmd ==
    \/ \E dx \in Steps, dy \in Steps : cmd_move(dx, dy)
    \/ \E dw \in ResizeDeltas, dh \in ResizeDeltas : cmd_resize(dw, dh)
    \/ cmd_reset
    \/ cmd_cycle_speed

SpecCmd == InitCmd /\ [][NextCmd]_vars

----------------------------------------------------------------------------
(* SpecLive: UnifiedStreamSystem.run_interactive on a full-size screen:   *)
(* start(), then keys handled by _handle_input, which change the config    *)
(* while the sampling loop runs, then stop() in the finally clause.  The   *)
(* frames stay in the queue: the main loop's get_frame is left to SpecRun. *)

\* A frame cut from the full-size screen is kept by what it holds, not
\* pixel by pixel: shape0 x shape1 pixels, black except for the block of
\* rows x cols pixels in its top-left corner, which shows the screen from
\* row row0, column col0 (0-based) on.
\* StreamCapture._extract_region(frame) with self.config = cfg and a frame
\* of LiveScreenH rows by LiveScreenW columns
extract_region_live(cfg) ==
    LET y1 == Max(0, cfg.y)
        y2 == Min(LiveScreenH, cfg.y + cfg.height)
        x1 == Max(0, cfg.x)
        x2 == Min(LiveScreenW, cfg.x + cfg.width)
        r == SliceIndices(y1, y2, LiveScreenH)
        c == SliceIndices(x1, x2, LiveScreenW)
        s0 == r[2] - r[1]
        s1 == c[2] - c[1]
        t0 == SliceIndices(0, s0, cfg.height)[2]
        t1 == SliceIndices(0, s1, cfg.width)[2]
    IN  IF s0 < cfg.height \/ s1 < cfg.width
        THEN IF Broadcastable(s0, t0) /\ Broadcastable(s1, t1)
             THEN [raised |-> FALSE,
                   value |-> [shape0 |-> cfg.height, shape1 |-> cfg.width,
                              row0 |-> r[1], col0 |-> c[1],
                              rows |-> t0, cols |-> t1]]
             ELSE [raised |-> TRUE, value |-> None]
        ELSE [raised |-> FALSE,
              value |-> [shape0 |-> s0, shape1 |-> s1,
                         row0 |-> r[1], col0 |-> c[1],
                         rows |-> s0, cols |-> s1]]

\* the sampling cycle extracting with the dataclass defaults instead of
\* the shared config
live_capture_stale(t) ==
    /\ threads[t].pc = "capture"
    /\ \E shot_ok \in BOOLEAN :
        LET r == extract_region_live(DefaultConfig)
        IN  threads' = [threads EXCEPT ![t] =
                IF shot_ok /\ ~r.raised
                THEN [pc |-> "full", stream |-> r.value]
                ELSE [pc |-> "except", stream |-> None]]
    /\ UNCHANGED <<config, pure_vars, cmd_vars, frame_queue, is_running,
                   capture_thread, main_pc, polled, published>>

\* the sampling cycle writing the clamped origin back to the config
live_capture_clamping(t) ==
    /\ threads[t].pc = "capture"
    /\ \E shot_ok \in BOOLEAN :
        LET r == extract_region_live(config)
        IN  threads' = [threads EXCEPT ![t] =
                IF shot_ok /\ ~r.raised
                THEN [pc |-> "full", stream |-> r.value]
                ELSE [pc |-> "except", stream |-> None]]
    /\ config' = [config EXCEPT !.x = Max(0, config.x), !.y = Max(0, config.y)]
    /\ UNCHANGED <<pure_vars, cmd_vars, frame_queue, is_running,
                   capture_thread, main_pc, polled, published>>

\* _capture_loop, screenshot and _extract_region on the full-size screen
live_capture(t) ==
    /\ threads[t].pc = "capture"
    /\ \E shot_ok \in BOOLEAN :
        LET r == extract_region_live(config)
        IN  threads' = [threads EXCEPT ![t] =
                IF shot_ok /\ ~r.raised
                THEN [pc |-> "full", stream |-> r.value]
                ELSE [pc |-> "except", stream |-> None]]
    /\ UNCHANGED <<config, pure_vars, cmd_vars, frame_queue, is_running,
                   capture_thread, main_pc, polled, published>>

\* one statement of _capture_loop in thread t
live_loop(t) ==
    \/ loop_while(t)
    \/ live_capture(t)
    \/ loop_full(t)
    \/ loop_get(t)
    \/ loop_put(t)
    \/ loop_except(t)

\* _handle_input runs in the main loop after a get_frame that returned a
\* frame: the engine is running, a frame has been published, and the main
\* loop is not inside stop()
HandlingInput ==
    /\ is_running
    /\ main_pc = "idle"
    /\ published > 0
    /\ published <= MaxLiveFrames

\* _handle_input: the arrow keys, +, -, r and Tab
key_left == HandlingInput /\ cmd_move(-1, 0)
key_right == HandlingInput /\ cmd_move(1, 0)
key_up == HandlingInput /\ cmd_move(0, -1)
key_down == HandlingInput /\ cmd_move(0, 1)
key_plus == HandlingInput /\ cmd_resize(10, 10)
key_minus == HandlingInput /\ cmd_resize(-10, -10)
key_r == HandlingInput /\ cmd_reset
key_tab == HandlingInput /\ cmd_cycle_speed

\* the config as __init__ leaves it: the defaults, or the record that
\* ConfigManager.load read from stream_config.json
LoadedConfig ==
    [DefaultConfig EXCEPT !.x = 1700, !.y = -220, !.movement_mode = "TURBO"]
LiveStartConfigs == {DefaultConfig, LoadedConfig}

InitLive ==
    /\ config \in LiveStartConfigs
    /\ cmds = 0
    /\ written = RegionOf(config)
    /\ full_frame = Screen
    /\ extracted = None
    /\ RenderIdle
    /\ EngineInit
    /\ DiskIdle

NextLive ==
    \/ run_start
    \/ key_left
    \/ key_right
    \/ key_up
    \/ key_down
    \/ key_plus
    \/ key_minus
    \/ key_r
    \/ key_tab
    \/ run_stop
    \/ stop_join
    \/ \E t \in 1..MaxThreads : live_loop(t)

SpecLive == InitLive /\ [][NextLive]_vars

----------------------------------------------------------------------------
(* OverlayRenderer.  A frame buffer lives at an address of the heap; its   *)
(* content is its shape, the pixels it was made from, and the overlay      *)
(* layers drawn on them, in drawing order.  A drawing call that works in   *)
(* place changes the content at the address it is given; copy() and        *)
(* addWeighted() make a new buffer.  Every function maps the pair          *)
(* [heap, ref] before the call to the pair after it.                       *)

\* OverlayRenderer.colors (BGR)
colors ==
    [border_normal |-> <<0, 255, 0>>, border_edge |-> <<0, 0, 255>>,
     grid |-> <<128, 128, 128>>, crosshair |-> <<0, 255, 255>>,
     corner |-> <<255, 255, 0>>, text |-> <<0, 255, 0>>]

\* frame.copy()
CopyFrame(st) ==
    [heap |-> Append(st.heap, st.heap[st.ref]), ref |-> Len(st.heap) + 1]

\* cv2.rectangle, cv2.line, cv2.circle, cv2.putText: drawing in place
Draw(st, layer) ==
    [st EXCEPT !.heap[st.ref].layers = Append(st.heap[st.ref].layers, layer)]

\* the edge test of _draw_border with strict comparisons
at_edge_strict(cfg) ==
    \/ cfg.y < 0
    \/ cfg.x < 0
    \/ cfg.y + cfg.height > ScreenH
    \/ cfg.x + cfg.width > ScreenW

\* _draw_border, "at_edge": screen_w, screen_h = pyautogui.size()
at_edge(cfg) ==
    \/ cfg.y <= 0
    \/ cfg.x <= 0
    \/ cfg.y + cfg.height >= ScreenH
    \/ cfg.x + cfg.width >= ScreenW

\* OverlayRenderer._draw_border: rectangle and corner markers, in place
_draw_border(st, cfg) ==
    LET color == IF at_edge(cfg) THEN colors.border_edge ELSE colors.border_normal
    IN  Draw(st, [name |-> "border", color |-> color,
                  to |-> <<st.heap[st.ref].shape1 - 1, st.heap[st.ref].shape0 - 1>>,
                  corner |-> colors.corner])

\* OverlayRenderer._draw_info: the panel is drawn on a copy, addWeighted
\* returns a new frame, the text is drawn on that one
_draw_info(st, cfg) ==
    LET overlay == Draw(CopyFrame(st), [name |-> "panel"])
        blended == CopyFrame([heap |-> overlay.heap, ref |-> st.ref])
    IN  Draw(blended, [name |-> "info", color |-> colors.text,
                       text |-> <<cfg.x, cfg.y, cfg.width, cfg.height,
                                  cfg.movement_mode>>])

\* OverlayRenderer._draw_guides: grid and crosshair, in place
_draw_guides(st) ==
    Draw(st, [name |-> "guides", grid |-> colors.grid, crosshair |-> colors.crosshair])

\* OverlayRenderer._draw_debug: the "DEBUG MODE" marker, in place
_draw_debug(st) ==
    Draw(st, [name |-> "debug", text |-> "DEBUG MODE", color |-> <<255, 0, 255>>])

\* render drawing the guides for FULL only, not for the modes above it
render_guides_full_only(h, a, cfg) ==
    IF cfg.overlay_mode = "NONE"
    THEN [heap |-> h, ref |-> a]
    ELSE
      LET v == OverlayMode[cfg.overlay_mode]
          s0 == CopyFrame([heap |-> h, ref |-> a])
          s1 == IF v >= OverlayMode.MINIMAL THEN _draw_border(s0, cfg) ELSE s0
          s2 == IF v >= OverlayMode.STANDARD THEN _draw_info(s1, cfg) ELSE s1
          s3 == IF cfg.overlay_mode = "FULL" THEN _draw_guides(s2) ELSE s2
      IN  IF cfg.overlay_mode = "DEBUG" THEN _draw_debug(s3) ELSE s3

\* render without the early return, drawing the border for every mode
render_border_always(h, a, cfg) ==
    LET v == OverlayMode[cfg.overlay_mode]
        s0 == CopyFrame([heap |-> h, ref |-> a])
        s1 == _draw_border(s0, cfg)
        s2 == IF v >= OverlayMode.STANDARD THEN _draw_info(s1, cfg) ELSE s1
        s3 == IF v >= OverlayMode.FULL THEN _draw_guides(s2) ELSE s2
    IN  IF cfg.overlay_mode = "DEBUG" THEN _draw_debug(s3) ELSE s3

\* render taking the border colour from the strict edge test
render_strict_edge(h, a, cfg) ==
    IF cfg.overlay_mode = "NONE"
    THEN [heap |-> h, ref |-> a]
    ELSE
      LET v == OverlayMode[cfg.overlay_mode]
          s0 == CopyFrame([heap |-> h, ref |-> a])
          color == IF at_edge_strict(cfg) THEN colors.border_edge
                                          ELSE colors.border_normal
          s1 == IF v >= OverlayMode.MINIMAL
                THEN Draw(s0, [name |-> "border", color |-> color,
                               to |-> <<s0.heap[s0.ref].shape1 - 1,
                                        s0.heap[s0.ref].shape0 - 1>>,
                               corner |-> colors.corner])
                ELSE s0
          s2 == IF v >= OverlayMode.STANDARD THEN _draw_info(s1, cfg) ELSE s1
          s3 == IF v >= OverlayMode.FULL THEN _draw_guides(s2) ELSE s2
      IN  IF cfg.overlay_mode = "DEBUG" THEN _draw_debug(s3) ELSE s3

\* OverlayRenderer.render(frame) with frame at address a of heap h
render(h, a, cfg) ==
    IF cfg.overlay_mode = "NONE"
    THEN [heap |-> h, ref |-> a]
    ELSE
      LET v == OverlayMode[cfg.overlay_mode]
          s0 == CopyFrame([heap |-> h, ref |-> a])
          s1 == IF v >= OverlayMode.MINIMAL THEN _draw_border(s0, cfg) ELSE s0
          s2 == IF v >= OverlayMode.STANDARD THEN _draw_info(s1, cfg) ELSE s1
          s3 == IF v >= OverlayMode.FULL THEN _draw_guides(s2) ELSE s2
      IN  IF cfg.overlay_mode = "DEBUG" THEN _draw_debug(s3) ELSE s3

\* the frame the main loop hands to render: an extracted frame of the
\* config's size with no layer on it
InputFrame(cfg) ==
    [shape0 |-> cfg.height, shape1 |-> cfg.width, base |-> "stream", layers |-> <<>>]

\* SpecRender: one call of render, for every overlay mode and every region
\* of Regions on the ScreenH x ScreenW screen
RenderConfigs ==
    {[DefaultConfig EXCEPT !.x = r.x, !.y = r.y, !.width = r.width,
                           !.height = r.height, !.overlay_mode = m] :
        r \in Regions, m \in DOMAIN OverlayMode}

InitRender ==
    /\ config \in RenderConfigs
    /\ heap = <<InputFrame(config)>>
    /\ frame_ref = 1
    /\ display_ref = 0
    /\ full_frame = Screen
    /\ extracted = None
    /\ CmdIdle
    /\ EngineInit
    /\ DiskIdle

Render ==
    /\ display_ref = 0
    /\ heap' = render(heap, frame_ref, config).heap
    /\ display_ref' = render(heap, frame_ref, config).ref
    /\ UNCHANGED <<config, frame_ref, full_frame, extracted, disk_vars, cmd_vars,
                   engine_vars>>

NextRender == Render

SpecRender == InitRender /\ [][NextRender]_vars

----------------------------------------------------------------------------
(* ConfigManager.  The document at config_file is None (no such file), or  *)
(* [kind |-> "object", fields |-> d] for a JSON object d (a function from  *)
(* its keys to their values), or a document of another kind: text that is  *)
(* not JSON, a file that cannot be read, JSON that is not an object.       *)

\* Enum(value): the member with that value; Python raises ValueError when
\* there is none
EnumByValue(enum, v) ==
    IF \E n \in DOMAIN enum : enum[n] = v
    THEN [raised |-> FALSE, member |-> CHOOSE n \in DOMAIN enum : enum[n] = v]
    ELSE [raised |-> TRUE, member |-> "ValueError"]

\* load's return value as the variable ret keeps it
Returned(b) == [returned |-> b]

\* dict.get(k, default)
Get(d, k, default) == IF k \in DOMAIN d THEN d[k] ELSE default

\* save writing the tier's position in the enumeration (0..3) where load
\* looks for its value
save_tier_index(cfg) ==
    [kind |-> "object",
     fields |-> [x |-> cfg.x, y |-> cfg.y, width |-> cfg.width,
                 height |-> cfg.height,
                 overlay_mode |-> OverlayMode[cfg.overlay_mode],
                 movement_mode |-> ModeIndex(cfg.movement_mode) - 1]]

\* ConfigManager.save(config): the document json.dump writes
save(cfg) ==
    [kind |-> "object",
     fields |-> [x |-> cfg.x, y |-> cfg.y, width |-> cfg.width,
                 height |-> cfg.height,
                 overlay_mode |-> OverlayMode[cfg.overlay_mode],
                 movement_mode |-> MovementMode[cfg.movement_mode]]]

\* load falling back to the dataclass defaults when there is no file
load_defaults_when_absent(cfg, doc) ==
    IF doc = None
    THEN [ret |-> FALSE,
          config |-> [cfg EXCEPT !.x = 40, !.y = 330, !.width = 340, !.height = 230,
                                 !.overlay_mode = "STANDARD",
                                 !.movement_mode = "NORMAL"]]
    ELSE IF doc.kind # "object"
    THEN [ret |-> FALSE, config |-> cfg]
    ELSE
      LET d == doc.fields
          c4 == [cfg EXCEPT !.x = Get(d, "x", cfg.x), !.y = Get(d, "y", cfg.y),
                            !.width = Get(d, "width", cfg.width),
                            !.height = Get(d, "height", cfg.height)]
          om == EnumByValue(OverlayMode, Get(d, "overlay_mode", 2))
          mv == EnumByValue(MovementMode, Get(d, "movement_mode", 5))
      IN  IF om.raised
          THEN [ret |-> FALSE, config |-> c4]
          ELSE IF mv.raised
          THEN [ret |-> FALSE, config |-> [c4 EXCEPT !.overlay_mode = om.member]]
          ELSE [ret |-> TRUE,
                config |-> [c4 EXCEPT !.overlay_mode = om.member,
                                      !.movement_mode = mv.member]]

\* ConfigManager.load(config) with doc at config_file: the value returned
\* and the config as the call leaves it.  The fields are assigned one by
\* one, x, y, width, height, overlay_mode, movement_mode; an exception
\* (open, json.load, data.get on a non-object, OverlayMode(v) or
\* MovementMode(v) for a v that is no value of the enum) ends the call with
\* False and the assignments made so far stand.
load(cfg, doc) ==
    IF doc = None
    THEN [ret |-> FALSE, config |-> cfg]
    ELSE IF doc.kind # "object"
    THEN [ret |-> FALSE, config |-> cfg]
    ELSE
      LET d == doc.fields
          c4 == [cfg EXCEPT !.x = Get(d, "x", cfg.x), !.y = Get(d, "y", cfg.y),
                            !.width = Get(d, "width", cfg.width),
                            !.height = Get(d, "height", cfg.height)]
          om == EnumByValue(OverlayMode, Get(d, "overlay_mode", 2))
          mv == EnumByValue(MovementMode, Get(d, "movement_mode", 5))
      IN  IF om.raised
          THEN [ret |-> FALSE, config |-> c4]
          ELSE IF mv.raised
          THEN [ret |-> FALSE, config |-> [c4 EXCEPT !.overlay_mode = om.member]]
          ELSE [ret |-> TRUE,
                config |-> [c4 EXCEPT !.overlay_mode = om.member,
                                      !.movement_mode = mv.member]]

\* SpecPersist: load and save applied to a config and a document drawn
\* from bounded sets, and a new run of the program over the same file.

\* configs as commands leave them
PersistConfigs ==
    {[DefaultConfig EXCEPT !.x = px, !.overlay_mode = om, !.movement_mode = mv] :
        px \in {40, -15}, om \in DOMAIN OverlayMode, mv \in DOMAIN MovementMode}

\* the keys of the persisted record and the values a document carries for
\* them: for the modes a value of the enum and a value that is none
Keys == {"x", "y", "width", "height", "overlay_mode", "movement_mode"}
KeyValues ==
    [x |-> {100}, y |-> {200}, width |-> {120}, height |-> {80},
     overlay_mode |-> {3, 7}, movement_mode |-> {20, 3}]

ObjectDocuments ==
    UNION {{[kind |-> "object", fields |-> f] :
              f \in {g \in [K -> UNION {KeyValues[k] : k \in Keys}] :
                        \A k \in K : g[k] \in KeyValues[k]}} :
           K \in SUBSET Keys}

Documents ==
    {None, [kind |-> "garbage"], [kind |-> "unreadable"], [kind |-> "array"]}
        \cup ObjectDocuments

InitPersist ==
    /\ config \in PersistConfigs
    /\ file \in Documents
    /\ ret = None
    /\ snapshot = None
    /\ key = "none"
    /\ full_frame = Screen
    /\ extracted = None
    /\ RenderIdle
    /\ CmdIdle
    /\ EngineInit

\* save opening the file to append: a second document after the one that
\* is there is text json.load cannot parse
Save_append ==
    /\ file' = IF file = None THEN save(config) ELSE [kind |-> "garbage"]
    /\ UNCHANGED <<config, ret, snapshot, key, full_frame, extracted, heap,
                   frame_ref, display_ref, cmd_vars, engine_vars>>

\* ConfigManager.save(self.config): key 's', and the end of run_interactive
Save ==
    /\ file' = save(config)
    /\ UNCHANGED <<config, ret, snapshot, key, full_frame, extracted, heap,
                   frame_ref, display_ref, cmd_vars, engine_vars>>

\* ConfigManager.load(self.config)
Load ==
    /\ ret = None
    /\ ret' = Returned(load(config, file).ret)
    /\ config' = load(config, file).config
    /\ UNCHANGED <<file, snapshot, key, full_frame, extracted, heap,
                   frame_ref, display_ref, cmd_vars, engine_vars>>

\* a new run of the program: UnifiedStreamSystem.__init__ makes a fresh
\* StreamConfig; the file stays
NewRun ==
    /\ ret # None
    /\ config' = DefaultConfig
    /\ ret' = None
    /\ UNCHANGED <<file, snapshot, key, full_frame, extracted, heap,
                   frame_ref, display_ref, cmd_vars, engine_vars>>

NextPersist ==
    \/ Save
    \/ Load
    \/ NewRun

SpecPersist == InitPersist /\ [][NextPersist]_vars

----------------------------------------------------------------------------
(* UnifiedStreamSystem.run_interactive, statement by statement, on a       *)
(* full-size screen.  main_pc is the main thread's position: "idle" before *)
(* start(), "poll" at get_frame(), "input" from render to _handle_input,   *)
(* "finally" at the finally clause, "joining" inside stop(), "save" after  *)
(* stop() returned, "done" at the end.  The environment presses keys; a    *)
(* pressed key waits until cv2.waitKey reads it.                           *)

\* the number keys 1..5 and the OverlayMode value each selects (key - ord('1'))
OverlayOfKey == [k \in {"1", "2", "3", "4", "5"} |->
    CASE k = "1" -> 0 [] k = "2" -> 1 [] k = "3" -> 2 [] k = "4" -> 3 [] k = "5" -> 4]

\* _handle_input with a border toggle that switches between None and Standard
handle_input_toggle_standard(cfg, k) ==
    CASE k = "left" -> move(cfg, -1, 0, TRUE)
      [] k = "right" -> move(cfg, 1, 0, TRUE)
      [] k = "up" -> move(cfg, 0, -1, TRUE)
      [] k = "down" -> move(cfg, 0, 1, TRUE)
      [] k = "tab" -> cycle_speed(cfg)
      [] k = "+" -> resize(cfg, 10, 10)
      [] k = "-" -> resize(cfg, -10, -10)
      [] k \in DOMAIN OverlayOfKey ->
            [cfg EXCEPT !.overlay_mode = EnumByValue(OverlayMode, OverlayOfKey[k]).member]
      [] k = "b" ->
            [cfg EXCEPT !.overlay_mode =
                IF cfg.overlay_mode = "NONE" THEN "STANDARD" ELSE "NONE"]
      [] k = "r" -> reset(cfg)
      [] OTHER -> cfg  \* s, space, q, Esc and unknown keys; c and a: _calibrate, auto_detect

\* _handle_input, the branches that only write the config
handle_input(cfg, k) ==
    CASE k = "left" -> move(cfg, -1, 0, TRUE)
      [] k = "right" -> move(cfg, 1, 0, TRUE)
      [] k = "up" -> move(cfg, 0, -1, TRUE)
      [] k = "down" -> move(cfg, 0, 1, TRUE)
      [] k = "tab" -> cycle_speed(cfg)
      [] k = "+" -> resize(cfg, 10, 10)
      [] k = "-" -> resize(cfg, -10, -10)
      [] k \in DOMAIN OverlayOfKey ->
            [cfg EXCEPT !.overlay_mode = EnumByValue(OverlayMode, OverlayOfKey[k]).member]
      [] k = "b" ->
            [cfg EXCEPT !.overlay_mode =
                IF cfg.overlay_mode = "NONE" THEN "MINIMAL" ELSE "NONE"]
      [] k = "r" -> reset(cfg)
      [] OTHER -> cfg  \* s, space, q, Esc and unknown keys; c and a: _calibrate, auto_detect

\* the variables the main loop's own steps leave alone
main_rest == <<full_frame, extracted, heap, frame_ref, display_ref, ret,
               cmd_vars, capture_thread, published>>

\* run_interactive, self.capture.start()
m_start ==
    /\ main_pc = "idle"
    /\ capture_thread = 0
    /\ is_running' = TRUE
    /\ threads' = [threads EXCEPT ![1].pc = "while"]
    /\ capture_thread' = 1
    /\ main_pc' = "poll"
    /\ UNCHANGED <<config, full_frame, extracted, heap, frame_ref, display_ref,
                   disk_vars, cmd_vars, frame_queue, polled, published>>

\* run_interactive, frame = self.capture.get_frame(); without a frame the
\* loop sleeps 0.01 s and polls again
m_poll ==
    /\ main_pc = "poll"
    /\ polled' = get_nowait(frame_queue).value
    /\ frame_queue' = get_nowait(frame_queue).queue
    /\ main_pc' = IF get_nowait(frame_queue).value = None THEN "poll" ELSE "input"
    /\ UNCHANGED <<config, file, snapshot, key, is_running, threads, main_rest>>

\* run_interactive, render and imshow, then _handle_input: the key at
\* cv2.waitKey, if any, is taken and handled; q and Esc end the loop.  The
\* snapshot branch calls get_frame() again and writes what that returns,
\* when it returns a frame.
m_input ==
    /\ main_pc = "input"
    /\ key' = "none"
    /\ main_pc' = IF key \in {"q", "esc"} THEN "finally" ELSE "poll"
    /\ config' = handle_input(config, key)
    /\ file' = IF key = "s" THEN save(config) ELSE file
    /\ IF key = " "
       THEN /\ frame_queue' = get_nowait(frame_queue).queue
            /\ snapshot' = IF get_nowait(frame_queue).value = None
                           THEN snapshot
                           ELSE get_nowait(frame_queue).value
       ELSE UNCHANGED <<frame_queue, snapshot>>
    /\ UNCHANGED <<polled, is_running, threads, main_rest>>

\* an exception leaves the loop: KeyboardInterrupt, or a collaborator
\* (imshow, waitKey, imwrite) raising
m_error ==
    /\ main_pc \in {"poll", "input"}
    /\ main_pc' = "finally"
    /\ UNCHANGED <<config, disk_vars, frame_queue, polled, is_running, threads,
                   full_frame, extracted, heap, frame_ref, display_ref,
                   cmd_vars, capture_thread, published>>

\* finally clause, self.capture.stop(): is_running = False
m_stop ==
    /\ main_pc = "finally"
    /\ is_running' = FALSE
    /\ main_pc' = "joining"
    /\ UNCHANGED <<config, disk_vars, frame_queue, polled, threads,
                   full_frame, extracted, heap, frame_ref, display_ref,
                   cmd_vars, capture_thread, published>>

\* stop(), self._capture_thread.join(): returns when the thread has ended
m_join ==
    /\ main_pc = "joining"
    /\ threads[capture_thread].pc = "dead"
    /\ main_pc' = "save"
    /\ UNCHANGED <<config, disk_vars, frame_queue, polled, is_running, threads,
                   full_frame, extracted, heap, frame_ref, display_ref,
                   cmd_vars, capture_thread, published>>

\* finally clause, "if self.config.auto_save: self.config_manager.save(...)"
m_save ==
    /\ main_pc = "save"
    /\ file' = IF config.auto_save THEN save(config) ELSE file
    /\ main_pc' = "done"
    /\ UNCHANGED <<config, ret, snapshot, key, frame_queue, polled, is_running,
                   threads, full_frame, extracted, heap, frame_ref, display_ref,
                   cmd_vars, capture_thread, published>>

\* the operator presses key k while the loop runs
press(k) ==
    /\ main_pc \in {"poll", "input"}
    /\ key = "none"
    /\ key' = k
    /\ UNCHANGED <<config, file, ret, snapshot, frame_queue, polled, is_running,
                   threads, main_pc, full_frame, extracted, heap, frame_ref,
                   display_ref, cmd_vars, capture_thread, published>>

\* the record an earlier run left at config_file
OldRecord ==
    [kind |-> "object",
     fields |-> [x |-> 100, y |-> 200, width |-> 120, height |-> 80,
                 overlay_mode |-> 3, movement_mode |-> 20]]

\* the state after UnifiedStreamSystem.__init__ when the file did not load
\* (a config that keeps its defaults), with either setting of auto_save
InitMain ==
    /\ config \in {[DefaultConfig EXCEPT !.auto_save = b] : b \in BOOLEAN}
    /\ file = OldRecord
    /\ ret = Returned(FALSE)
    /\ snapshot = None
    /\ key = "none"
    /\ full_frame = Screen
    /\ extracted = None
    /\ RenderIdle
    /\ CmdIdle
    /\ EngineInit

\* SpecMain: the loop until it ends, the operator pressing q
NextMain ==
    \/ m_start
    \/ m_poll
    \/ m_input
    \/ m_error
    \/ m_stop
    \/ m_join
    \/ m_save
    \/ press("q")
    \/ \E t \in 1..MaxThreads : live_loop(t)

SpecMain == InitMain /\ [][NextMain]_vars

\* both threads are scheduled fairly: every statement that can run does;
\* key presses and exceptions are the environment's
FairSpecMain ==
    /\ SpecMain
    /\ \A t \in 1..MaxThreads : WF_vars(live_loop(t))
    /\ WF_vars(m_start)
    /\ WF_vars(m_poll)
    /\ WF_vars(m_input)
    /\ WF_vars(m_stop)
    /\ WF_vars(m_join)
    /\ WF_vars(m_save)

\* SpecSnap: the running loop, the operator pressing the space bar
NextSnap ==
    \/ m_start
    \/ m_poll
    \/ m_input
    \/ press(" ")
    \/ \E t \in 1..MaxThreads : live_loop(t)

SpecSnap == InitMain /\ [][NextSnap]_vars

----------------------------------------------------------------------------
(* SpecKeys: the config through one run of the orchestrator: __init__      *)
(* loads the persisted record, then _handle_input handles keys, calibrate  *)
(* and auto-detect included.  What cv2.selectROI and the contour search    *)
(* hand back is drawn from small sets.                                     *)

\* a rectangle as cv2.selectROI and cv2.boundingRect return it
Rect(px, py, w, h) == <<px, py, w, h>>

\* _calibrate with the rectangle the operator selected (0 x 0 when the
\* selection is cancelled)
_calibrate(cfg, roi) ==
    IF roi[3] > 0 /\ roi[4] > 0
    THEN [cfg EXCEPT !.x = roi[1], !.y = roi[2], !.width = roi[3], !.height = roi[4]]
    ELSE cfg

\* the size test of auto_detect: 300 < w < 400 and 200 < h < 300
Plausible(r) == 300 < r[3] /\ r[3] < 400 /\ 200 < r[4] /\ r[4] < 300

\* auto_detect taking the first bounding box whatever its size
auto_detect_first_box(cfg, boxes) ==
    IF boxes = <<>> THEN [ret |-> FALSE, config |-> cfg]
    ELSE [ret |-> TRUE,
          config |-> [cfg EXCEPT !.x = Head(boxes)[1], !.y = Head(boxes)[2],
                                 !.width = Head(boxes)[3], !.height = Head(boxes)[4]]]

\* MovementController.auto_detect with the bounding boxes of the contours
\* found, in order: the first box of plausible size becomes the region
RECURSIVE auto_detect(_, _)
auto_detect(cfg, boxes) ==
    IF boxes = <<>> THEN [ret |-> FALSE, config |-> cfg]
    ELSE IF Plausible(Head(boxes))
         THEN [ret |-> TRUE,
               config |-> [cfg EXCEPT !.x = Head(boxes)[1], !.y = Head(boxes)[2],
                                      !.width = Head(boxes)[3], !.height = Head(boxes)[4]]]
         ELSE auto_detect(cfg, Tail(boxes))

\* selections and contour lists the collaborators may produce
Selections == {Rect(0, 0, 0, 0), Rect(100, 200, 30, 20), Rect(10, 20, 400, 300)}
ContourLists ==
    {<<>>,
     <<Rect(0, 0, 1920, 30)>>,
     <<Rect(5, 5, 12, 12), Rect(500, 400, 320, 240), Rect(900, 100, 350, 250)>>}

\* the keys whose branch of _handle_input needs no collaborator
PlainKeys ==
    {"left", "right", "up", "down", "tab", "+", "-", "1", "2", "3", "4", "5",
     "b", "r", "s"}

\* _handle_input with key k read by cv2.waitKey
key_plain(k) ==
    /\ ret # None
    /\ Command(handle_input(config, k))
    /\ file' = IF k = "s" THEN save(config) ELSE file
    /\ UNCHANGED <<full_frame, extracted, heap, frame_ref, display_ref, ret,
                   snapshot, key, engine_vars>>

\* _handle_input, key c
key_c(roi) ==
    /\ ret # None
    /\ Command(_calibrate(config, roi))
    /\ UNCHANGED <<pure_vars, engine_vars>>

\* _handle_input, key a
key_a(boxes) ==
    /\ ret # None
    /\ Command(auto_detect(config, boxes).config)
    /\ UNCHANGED <<pure_vars, engine_vars>>

\* a record with a region smaller than resize would leave it
SmallRecord ==
    [kind |-> "object",
     fields |-> [x |-> 0, y |-> 0, width |-> 10, height |-> 20,
                 overlay_mode |-> 0, movement_mode |-> 1]]

\* what an earlier run, or an editor, left at config_file
StartupDocuments == {None, OldRecord, SmallRecord}

\* __init__ before "self.config_manager.load(self.config)"
InitKeys ==
    /\ config = DefaultConfig
    /\ file \in StartupDocuments
    /\ ret = None
    /\ snapshot = None
    /\ key = "none"
    /\ cmds = 0
    /\ written = RegionOf(config)
    /\ full_frame = Screen
    /\ extracted = None
    /\ RenderIdle
    /\ EngineInit

NextKeys ==
    \/ Load
    \/ \E k \in PlainKeys : key_plain(k)
    \/ \E roi \in Selections : key_c(roi)
    \/ \E boxes \in ContourLists : key_a(boxes)

SpecKeys == InitKeys /\ [][NextKeys]_vars

----------------------------------------------------------------------------
(* SpecTorn: the sampling loop and the main loop's commands statement by   *)
(* statement.  _extract_region reads the shared config one statement at a  *)
(* time while resize and reset write it one field at a time; no lock is    *)
(* held by either.  A thread inside _extract_region keeps, next to its     *)
(* locals, what it has read (reads) and every region the config has held   *)
(* since the call began (seen), until the call returns.                    *)

ExtractPcs == {"y1", "y2", "x1", "x2", "test", "pad"}

\* thread t reads the config fields fs in the statement it executes
Reading(t, fs) ==
    threads[t].reads \cup {<<f, config[f]>> : f \in fs}

\* _capture_loop, screenshot, np.array and cvtColor, then the call of
\* _extract_region
torn_capture(t) ==
    /\ threads[t].pc = "capture"
    /\ \E shot_ok \in BOOLEAN :
        threads' = [threads EXCEPT ![t] =
            IF shot_ok
            THEN [pc |-> "y1", stream |-> None, y1 |-> 0, y2 |-> 0, x1 |-> 0,
                  x2 |-> 0, reads |-> {}, seen |-> {RegionOf(config)}]
            ELSE [pc |-> "except", stream |-> None]]
    /\ UNCHANGED <<config, pure_vars, cmd_vars, frame_queue, is_running,
                   capture_thread, main_pc, polled, published>>

\* _extract_region, "y1 = max(0, self.config.y)"
extract_y1(t) ==
    /\ threads[t].pc = "y1"
    /\ threads' = [threads EXCEPT ![t].y1 = Max(0, config.y),
                                  ![t].reads = Reading(t, {"y"}),
                                  ![t].pc = "y2"]
    /\ UNCHANGED <<config, pure_vars, cmd_vars, frame_queue, is_running,
                   capture_thread, main_pc, polled, published>>

\* "y2 = min(frame.shape[0], self.config.y + self.config.height)"
extract_y2(t) ==
    /\ threads[t].pc = "y2"
    /\ threads' = [threads EXCEPT ![t].y2 = Min(LiveScreenH, config.y + config.height),
                                  ![t].reads = Reading(t, {"y", "height"}),
                                  ![t].pc = "x1"]
    /\ UNCHANGED <<config, pure_vars, cmd_vars, frame_queue, is_running,
                   capture_thread, main_pc, polled, published>>

\* "x1 = max(0, self.config.x)"
extract_x1(t) ==
    /\ threads[t].pc = "x1"
    /\ threads' = [threads EXCEPT ![t].x1 = Max(0, config.x),
                                  ![t].reads = Reading(t, {"x"}),
                                  ![t].pc = "x2"]
    /\ UNCHANGED <<config, pure_vars, cmd_vars, frame_queue, is_running,
                   capture_thread, main_pc, polled, published>>

\* "x2 = min(frame.shape[1], self.config.x + self.config.width)"
extract_x2(t) ==
    /\ threads[t].pc = "x2"
    /\ threads' = [threads EXCEPT ![t].x2 = Min(LiveScreenW, config.x + config.width),
                                  ![t].reads = Reading(t, {"x", "width"}),
                                  ![t].pc = "test"]
    /\ UNCHANGED <<config, pure_vars, cmd_vars, frame_queue, is_running,
                   capture_thread, main_pc, polled, published>>

\* frame[y1:y2, x1:x2] of the full-size screen, as a frame descriptor
slice_live(y1, y2, x1, x2) ==
    LET r == SliceIndices(y1, y2, LiveScreenH)
        c == SliceIndices(x1, x2, LiveScreenW)
    IN  [shape0 |-> r[2] - r[1], shape1 |-> c[2] - c[1],
         row0 |-> r[1], col0 |-> c[1],
         rows |-> r[2] - r[1], cols |-> c[2] - c[1]]

\* "stream = frame[y1:y2, x1:x2]" and the test "if stream.shape[0] <
\* self.config.height or stream.shape[1] < self.config.width"; without
\* padding the slice is returned
extract_test(t) ==
    /\ threads[t].pc = "test"
    /\ LET st == slice_live(threads[t].y1, threads[t].y2, threads[t].x1, threads[t].x2)
       IN  threads' = [threads EXCEPT ![t] =
               IF st.shape0 < config.height \/ st.shape1 < config.width
               THEN [threads[t] EXCEPT !.stream = st,
                                       !.reads = Reading(t, {"height", "width"}),
                                       !.pc = "pad"]
               ELSE [pc |-> "full", stream |-> st]]
    /\ UNCHANGED <<config, pure_vars, cmd_vars, frame_queue, is_running,
                   capture_thread, main_pc, polled, published>>

\* "padded = np.zeros((self.config.height, self.config.width, 3))" and
\* "padded[:stream.shape[0], :stream.shape[1]] = stream", which raises
\* when the slice does not fit the block
extract_pad(t) ==
    /\ threads[t].pc = "pad"
    /\ LET st == threads[t].stream
           t0 == SliceIndices(0, st.shape0, config.height)[2]
           t1 == SliceIndices(0, st.shape1, config.width)[2]
       IN  threads' = [threads EXCEPT ![t] =
               IF Broadcastable(st.shape0, t0) /\ Broadcastable(st.shape1, t1)
               THEN [pc |-> "full",
                     stream |-> [shape0 |-> config.height, shape1 |-> config.width,
                                 row0 |-> st.row0, col0 |-> st.col0,
                                 rows |-> t0, cols |-> t1]]
               ELSE [pc |-> "except", stream |-> None]]
    /\ UNCHANGED <<config, pure_vars, cmd_vars, frame_queue, is_running,
                   capture_thread, main_pc, polled, published>>

\* one statement of _capture_loop in thread t
torn_loop(t) ==
    \/ loop_while(t)
    \/ torn_capture(t)
    \/ extract_y1(t)
    \/ extract_y2(t)
    \/ extract_x1(t)
    \/ extract_x2(t)
    \/ extract_test(t)
    \/ extract_pad(t)
    \/ loop_full(t)
    \/ loop_get(t)
    \/ loop_put(t)
    \/ loop_except(t)

\* one assignment of the main thread to a field of the shared config: every
\* extraction in progress has now seen one more region
Assign(newcfg, next_pc) ==
    /\ config' = newcfg
    /\ written' = RegionOf(newcfg)
    /\ main_pc' = next_pc
    /\ threads' = [t \in 1..MaxThreads |->
          IF threads[t].pc \in ExtractPcs
          THEN [threads[t] EXCEPT !.seen = @ \cup {RegionOf(newcfg)}]
          ELSE threads[t]]
    /\ UNCHANGED <<pure_vars, frame_queue, is_running, capture_thread, polled,
                   published>>

\* key +, resize(10, 10): "self.config.width = max(50, self.config.width + dw)"
plus_width ==
    /\ HandlingInput
    /\ cmds < MaxTornCmds
    /\ cmds' = cmds + 1
    /\ Assign([config EXCEPT !.width = Max(50, config.width + 10)], "plus_height")

\* "self.config.height = max(50, self.config.height + dh)"
plus_height ==
    /\ main_pc = "plus_height"
    /\ cmds' = cmds
    /\ Assign([config EXCEPT !.height = Max(50, config.height + 10)], "idle")

\* key r, reset(): "self.config.x = 40" ... "self.config.height = 230"
reset_x ==
    /\ HandlingInput
    /\ cmds < MaxTornCmds
    /\ cmds' = cmds + 1
    /\ Assign([config EXCEPT !.x = 40], "reset_y")

reset_y ==
    /\ main_pc = "reset_y"
    /\ cmds' = cmds
    /\ Assign([config EXCEPT !.y = 330], "reset_width")

reset_width ==
    /\ main_pc = "reset_width"
    /\ cmds' = cmds
    /\ Assign([config EXCEPT !.width = 340], "reset_height")

reset_height ==
    /\ main_pc = "reset_height"
    /\ cmds' = cmds
    /\ Assign([config EXCEPT !.height = 230], "idle")

NextTorn ==
    \/ run_start
    \/ plus_width
    \/ plus_height
    \/ reset_x
    \/ reset_y
    \/ reset_width
    \/ reset_height
    \/ \E t \in 1..MaxThreads : torn_loop(t)

SpecTorn == InitLive /\ [][NextTorn]_vars

----------------------------------------------------------------------------
(* Claims about _extract_region (checked under SpecExtract) *)

\* the region has no overlap with the screen: wholly left, above, right or below
NoOverlap(cfg) ==
    \/ cfg.x + cfg.width <= 0
    \/ cfg.y + cfg.height <= 0
    \/ cfg.x >= ScreenW
    \/ cfg.y >= ScreenH

\* the region lies fully inside the screen
FullyInside(cfg) ==
    /\ 0 <= cfg.x /\ 0 <= cfg.y
    /\ cfg.x + cfg.width <= ScreenW
    /\ cfg.y + cfg.height <= ScreenH

\* C1: for every region with positive width and height, wherever it lies,
\* _extract_region returns a frame of exactly height rows by width columns.
C1_ExactSize ==
    extracted # None =>
        /\ ~extracted.raised
        /\ extracted.value.shape0 = config.height
        /\ extracted.value.shape1 = config.width

\* C2: for every region with no overlap with the source frame,
\* _extract_region returns a frame of the requested size whose pixels are
\* all black.
C2_NoOverlapBlack ==
    (extracted # None /\ NoOverlap(config)) =>
        /\ ~extracted.raised
        /\ extracted.value = Zeros(config.height, config.width)

\* C3: for every region fully inside the source frame, the returned frame
\* equals the sub-rectangle frame[y:y+height, x:x+width] pixel for pixel.
C3_InsideIsSubRectangle ==
    (extracted # None /\ FullyInside(config)) =>
        /\ ~extracted.raised
        /\ extracted.value =
              [shape0 |-> config.height, shape1 |-> config.width,
               data |-> [i \in 1..config.height |-> [j \in 1..config.width |->
                           full_frame.data[config.y + i][config.x + j]]]]

\* a region strictly inside the screen, away from its top-left corner, has
\* been extracted
C3_Witness ==
    /\ extracted # None
    /\ FullyInside(config)
    /\ config.x > 0 /\ config.y > 0
    /\ config.width > 1 /\ config.height > 1

\* the region overlaps the screen without lying fully inside it
PartialOverlap(cfg) == ~NoOverlap(cfg) /\ ~FullyInside(cfg)

\* C31: for a region that only partially overlaps the source frame, output
\* pixel (i, j) equals source pixel (max(0, y) + i, max(0, x) + j) for i, j
\* inside the intersection, which sits in the top-left corner of the
\* output, and every other output pixel is black.
C31_PartialTopLeft ==
    (extracted # None /\ PartialOverlap(config)) =>
        LET rows == Min(ScreenH, config.y + config.height) - Max(0, config.y)
            cols == Min(ScreenW, config.x + config.width) - Max(0, config.x)
        IN  /\ ~extracted.raised
            /\ extracted.value =
                  [shape0 |-> config.height, shape1 |-> config.width,
                   data |-> [i \in 1..config.height |-> [j \in 1..config.width |->
                       IF i <= rows /\ j <= cols
                       THEN full_frame.data[Max(0, config.y) + i][Max(0, config.x) + j]
                       ELSE Black]]]

\* a region that sticks out of the screen on the left and at the bottom and
\* reaches its right edge has been extracted
C31_Witness ==
    /\ extracted # None
    /\ config.x < 0 /\ config.x + config.width >= ScreenW
    /\ config.y > 0 /\ config.y + config.height > ScreenH
    /\ config.y < ScreenH

----------------------------------------------------------------------------
(* Claims about the hand-off buffer and the engine's lifecycle *)

\* thread t waits inside a queue operation
Blocked(t) ==
    \/ threads[t].pc = "get" /\ frame_queue = <<>>
    \/ threads[t].pc = "put" /\ ~CanPut(frame_queue)

\* stop() was called after start() and has returned
StopReturned == capture_thread # 0 /\ ~is_running /\ main_pc = "idle"

\* C4: under every interleaving of the producer's publish step with the
\* consumer's polls, no reachable state has the sampling loop blocked on a
\* buffer operation.
C4_ProducerNeverBlocked == \A t \in 1..MaxThreads : ~Blocked(t)

\* C5: with no poll in between, once QueueMaxSize + 1 frames have been
\* published into the empty buffer, the buffer holds exactly the
\* QueueMaxSize most recent ones, oldest first: frames 2 .. QueueMaxSize + 1.
C5_DropOldest ==
    (/\ is_running /\ polled = NotPolled
     /\ published = QueueMaxSize + 1
     /\ \A t \in 1..MaxThreads : threads[t].pc # "put")
    => /\ Len(frame_queue) = QueueMaxSize
       /\ \A i \in 1..QueueMaxSize : frame_queue[i].id = i + 1

C5_Witness ==
    /\ is_running /\ polled = NotPolled
    /\ published = QueueMaxSize + 1
    /\ threads[1].pc = "while"
    /\ Len(frame_queue) = QueueMaxSize

\* C6: in every reachable state the hand-off buffer holds at most 30 frames.
C6_AtMost30 == Len(frame_queue) <= 30

\* the buffer is full while a sampling thread is about to publish again
C6_Witness ==
    /\ Len(frame_queue) = 30
    /\ \E t \in 1..MaxThreads : threads[t].pc = "full"

C8_StopSynchronous ==
    StopReturned => \A t \in 1..MaxThreads : threads[t].pc \in {"unborn", "dead"}

\* stop() has returned after the loop had published frames
C8_Witness ==
    /\ StopReturned
    /\ threads[1].pc = "dead"
    /\ published > 0

\* C9: every call to stop() eventually returns control to its caller.
C9_StopReturns == (main_pc = "joining") ~> (main_pc = "idle")

\* C10: Stopped is terminal: once stop() has been called on a started
\* engine, no later call sets it Running again or creates a sampling thread.
C10_StoppedTerminal ==
    [][(capture_thread # 0 /\ ~is_running)
          => (~is_running' /\ capture_thread' = capture_thread)]_vars

\* C36: a frame is evicted from the hand-off buffer only when the buffer
\* holds 30 frames at that moment: under every interleaving with consumer
\* polls, a publish into a buffer that holds fewer than 30 frames discards
\* no queued frame.
C36_EvictOnlyWhenFull ==
    [][\A t \in 1..MaxThreads :
          loop_get(t) => Len(frame_queue) = QueueMaxSize]_vars

\* C38: at most one sampling loop is alive at any time for one engine,
\* for every sequence of start() and stop() calls, start() twice in a row
\* included.
C38_OneSamplingLoop ==
    Cardinality({t \in 1..MaxThreads :
        threads[t].pc \in {"while", "capture", "full", "get", "put", "except"}}) <= 1

----------------------------------------------------------------------------
(* Claims about MovementController (checked under SpecCmd) *)

\* the fields of the config that neither move nor resize may touch
ModesOf(cfg) ==
    <<cfg.overlay_mode, cfg.movement_mode, cfg.auto_save, cfg.config_file>>

\* pixels per step as the claims state them
TierPixels(m) ==
    CASE m = "FINE" -> 1 [] m = "NORMAL" -> 5 [] m = "FAST" -> 10 [] m = "TURBO" -> 20

\* C18: move(dx, dy) adds dx and dy times the active tier's multiplier
\* (1, 5, 10, 20) to x and y, without clamping, and changes nothing else;
\* over the same two steps Turbo displaces exactly 20 times as far as Fine.
C18_MoveScaled ==
    [][\A dx \in Steps, dy \in Steps :
          cmd_move(dx, dy) =>
              /\ config'.x = config.x + dx * TierPixels(config.movement_mode)
              /\ config'.y = config.y + dy * TierPixels(config.movement_mode)
              /\ config'.width = config.width /\ config'.height = config.height
              /\ ModesOf(config') = ModesOf(config)
              /\ \A dx2 \in Steps, dy2 \in Steps :
                    LET turbo == move(move([config EXCEPT !.movement_mode = "TURBO"],
                                           dx, dy, TRUE), dx2, dy2, TRUE)
                        fine == move(move([config EXCEPT !.movement_mode = "FINE"],
                                          dx, dy, TRUE), dx2, dy2, TRUE)
                    IN  /\ turbo.x - config.x = 20 * (fine.x - config.x)
                        /\ turbo.y - config.y = 20 * (fine.y - config.y)
      ]_vars

\* moves have taken x below 0
C18_Witness == cmds > 0 /\ config.x < 0 /\ config.y # 330

\* C19: from width >= 50 and height >= 50, whatever resize calls follow,
\* width >= 50 and height >= 50.
C19_SizeFloor == config.width >= 50 /\ config.height >= 50

\* shrinking has brought both dimensions to the floor
C19_Witness == cmds > 0 /\ config.width = 50 /\ config.height = 50

\* C20: resize(dw, dh) sets width to max(50, width + dw) and height to
\* max(50, height + dh), each on its own, whatever the speed tier, and
\* leaves x, y and the modes unchanged.
C20_ResizeIndependent ==
    [][\A dw \in ResizeDeltas, dh \in ResizeDeltas :
        /\ cmd_resize(dw, dh) =>
            /\ config'.width = (IF config.width + dw < 50 THEN 50 ELSE config.width + dw)
            /\ config'.height = (IF config.height + dh < 50 THEN 50 ELSE config.height + dh)
            /\ config'.x = config.x /\ config'.y = config.y
            /\ ModesOf(config') = ModesOf(config)
        /\ \A m \in DOMAIN MovementMode :
            RegionOf(resize([config EXCEPT !.movement_mode = m], dw, dh))
                = RegionOf(resize(config, dw, dh))
      ]_vars

\* a shrink was clamped in one dimension and applied in full to the other
C20_Witness == cmds > 0 /\ config.width = 50 /\ config.height = 220

\* C21: reset() sets the region to x=40, y=330, width=340, height=230,
\* leaves overlay mode, speed tier, auto-save flag and persistence path as
\* they were, and a second reset changes nothing.
C21_ResetRegionOnly ==
    [][cmd_reset =>
          /\ config'.x = 40 /\ config'.y = 330
          /\ config'.width = 340 /\ config'.height = 230
          /\ ModesOf(config') = ModesOf(config)
          /\ reset(config') = config']_vars

\* the region is the default one after commands, under a speed tier other
\* than the default
C21_Witness ==
    /\ cmds = MaxCmds
    /\ RegionOf(config) = [x |-> 40, y |-> 330, width |-> 340, height |-> 230]
    /\ config.movement_mode = "TURBO"

\* the tier after tier m in enumeration order, Turbo wrapping to Fine
NextTier(m) ==
    CASE m = "FINE" -> "NORMAL" [] m = "NORMAL" -> "FAST"
      [] m = "FAST" -> "TURBO" [] m = "TURBO" -> "FINE"

\* C22: the cycle-speed command moves the tier to the next one, Turbo
\* wrapping to Fine, leaves the region and the overlay mode unchanged, and
\* four of them in a row restore the tier.
C22_CycleSpeed ==
    [][cmd_cycle_speed =>
          /\ config'.movement_mode = NextTier(config.movement_mode)
          /\ RegionOf(config') = RegionOf(config)
          /\ config'.overlay_mode = config.overlay_mode
          /\ cycle_speed(cycle_speed(cycle_speed(config'))) = config]_vars

\* two cycle-speed commands from Turbo or Fast: the tier has wrapped
C22_Witness ==
    /\ cmds = MaxCmds
    /\ written = RegionOf(config)
    /\ config.movement_mode = "FINE"
    /\ config.x = 5 /\ config.width = 60

----------------------------------------------------------------------------
(* Claims about the sampling loop and the shared config (SpecLive,       *)
(* SpecTorn)                                                            *)

\* thread t is inside _capture_loop
InLoop(t) == threads[t].pc \in {"while", "capture", "full", "get", "put", "except"}

\* C11: a cycle that fails, because the screenshot or the extraction
\* raises, takes the thread to the except clause and from there back to
\* the loop test, with is_running, the queue and the publication count as
\* they were; and a loop test that finds is_running set starts another
\* cycle.
C11_FailureNotFatal ==
    [][\A t \in 1..MaxThreads :
        /\ (threads[t].pc = "capture" /\ threads'[t].pc = "except") =>
              /\ is_running' = is_running
              /\ frame_queue' = frame_queue
              /\ published' = published
        /\ (threads[t].pc = "except" /\ threads'[t] # threads[t]) =>
              /\ threads'[t].pc = "while"
              /\ is_running' = is_running
              /\ frame_queue' = frame_queue
              /\ published' = published
        /\ (threads[t].pc = "while" /\ threads'[t] # threads[t] /\ is_running) =>
              threads'[t].pc = "capture"]_vars

\* a thread is in the except clause because the extraction raised, while
\* the engine is running and the queue holds frames
C11_Witness ==
    /\ is_running
    /\ frame_queue # <<>>
    /\ extract_region_live(config).raised
    /\ \E t \in 1..MaxThreads : threads[t].pc = "except"

\* C12: no step of the sampling loop changes the config; every step that
\* changes it is a command of the main loop.
C12_ConfigWrittenByMainOnly ==
    [][/\ (\E t \in 1..MaxThreads : InLoop(t) /\ threads'[t] # threads[t]) =>
              config' = config
       /\ config' # config => (cmds' = cmds + 1 /\ threads' = threads)]_vars

\* the config has been changed and a thread is about to publish a frame
C12_Witness ==
    /\ cmds > 0
    /\ config # DefaultConfig
    /\ config # LoadedConfig
    /\ \E t \in 1..MaxThreads : threads[t].pc = "put"

\* C13: the frame an extraction yields is the one cut with the region as
\* the last command left it; for a region inside the screen, the
\* width x height block at (x, y).
C13_ExtractsWithWrittenRegion ==
    [][\A t \in 1..MaxThreads :
        (threads[t].pc = "capture" /\ threads'[t].pc = "full") =>
            /\ threads'[t].stream = extract_region_live(written).value
            /\ (/\ written.x >= 0 /\ written.y >= 0
                /\ written.x + written.width <= LiveScreenW
                /\ written.y + written.height <= LiveScreenH) =>
                  threads'[t].stream =
                      [shape0 |-> written.height, shape1 |-> written.width,
                       row0 |-> written.y, col0 |-> written.x,
                       rows |-> written.height, cols |-> written.width]]_vars

\* a thread holds a frame cut with a region that only a command can have
\* produced
C13_Witness ==
    /\ cmds > 0
    /\ written # RegionOf(DefaultConfig)
    /\ written # RegionOf(LoadedConfig)
    /\ \E t \in 1..MaxThreads :
          /\ threads[t].pc = "full"
          /\ threads[t].stream = extract_region_live(written).value

\* C32: no region geometry makes a sampling cycle fail: whatever region
\* the config holds when a cycle samples, the extraction does not raise, so
\* a cycle whose screenshot succeeded goes on to publish and does not take
\* the capture-error path.
C32_GeometryNeverFails ==
    [][\A t \in 1..MaxThreads :
          live_capture(t) => ~extract_region_live(config).raised]_vars

\* C33: every frame held in the hand-off buffer has exactly
\* config.height rows and config.width columns of the shared config as it
\* stands at that moment, also after commands issued while frames are
\* queued.
C33_QueuedFramesHaveConfigSize ==
    \A i \in 1..Len(frame_queue) :
        /\ frame_queue[i].frame.shape0 = config.height
        /\ frame_queue[i].frame.shape1 = config.width

\* C35: the x, y, width and height read during one _extract_region call
\* all come from a single config state that existed at some moment of the
\* call, whatever the main loop writes meanwhile: when the call returns,
\* some region the config held during the call agrees with every read.
C35_ConsistentRegionRead ==
    [][\A t \in 1..MaxThreads :
        (threads[t].pc \in {"test", "pad"} /\ threads'[t].pc = "full") =>
            \E r \in threads[t].seen :
                \A rd \in Reading(t, {"height", "width"}) : r[rd[1]] = rd[2]]_vars

----------------------------------------------------------------------------
(* Claims about ConfigManager (checked under SpecPersist) *)

\* the overlay modes' and tiers' numbers as the record format states them
OverlayNumber(m) ==
    CASE m = "NONE" -> 0 [] m = "MINIMAL" -> 1 [] m = "STANDARD" -> 2
      [] m = "FULL" -> 3 [] m = "DEBUG" -> 4

\* the record of a config: its region, overlay mode number and tier number
RecordOf(cfg) ==
    [kind |-> "object",
     fields |-> [x |-> cfg.x, y |-> cfg.y, width |-> cfg.width,
                 height |-> cfg.height,
                 overlay_mode |-> OverlayNumber(cfg.overlay_mode),
                 movement_mode |-> TierPixels(cfg.movement_mode)]]

\* the six persisted fields of a config
SixOf(cfg) ==
    <<cfg.x, cfg.y, cfg.width, cfg.height, cfg.overlay_mode, cfg.movement_mode>>

\* C23: the record save(config) writes, loaded into a fresh config,
\* returns success and gives the fresh config the config's six fields; and
\* a load into a fresh config of a record holding a config's six fields
\* does so.
C23_RoundTrip ==
    [][/\ Save =>
            /\ load(DefaultConfig, file').ret
            /\ SixOf(load(DefaultConfig, file').config) = SixOf(config)
       /\ \A c \in PersistConfigs :
            (Load /\ config = DefaultConfig /\ file = RecordOf(c)) =>
                /\ ret' = Returned(TRUE)
                /\ SixOf(config') = SixOf(c)]_vars

\* a new run has loaded the record an earlier run saved of a config with
\* x = -15
C23_Witness ==
    /\ ret = Returned(TRUE)
    /\ config.x = -15
    /\ config.overlay_mode # "STANDARD"
    /\ config.movement_mode # "NORMAL"
    /\ file = RecordOf(config)

\* C24: with no file at the path load returns False and leaves every field
\* of the config as it was.
C24_AbsentLeavesConfig ==
    [][(Load /\ file = None) =>
          /\ ret' = Returned(FALSE)
          /\ config' = config]_vars

C24_Witness ==
    /\ ret = Returned(FALSE)
    /\ file = None
    /\ config.x = -15
    /\ config.overlay_mode = "DEBUG"

\* a document that is present and malformed: not a JSON object, or an
\* object whose overlay_mode is outside 0..4 or whose movement_mode is
\* outside {1, 5, 10, 20}
Malformed(doc) ==
    /\ doc # None
    /\ \/ doc.kind # "object"
       \/ /\ doc.kind = "object"
          /\ \/ /\ "overlay_mode" \in DOMAIN doc.fields
                /\ doc.fields["overlay_mode"] \notin 0..4
             \/ /\ "movement_mode" \in DOMAIN doc.fields
                /\ doc.fields["movement_mode"] \notin {1, 5, 10, 20}

\* C25: with a malformed document at the path load returns False and
\* leaves every field of the config as it was.
C25_MalformedLeavesConfig ==
    [][(Load /\ Malformed(file)) =>
          /\ ret' = Returned(FALSE)
          /\ config' = config]_vars

\* C26: a successful load overwrites exactly the fields the record
\* carries, each with the record's value, and leaves every other field as
\* it was.
C26_OnlyPresentFields ==
    [][(Load /\ ret' = Returned(TRUE)) =>
          /\ \A k \in {"x", "y", "width", "height"} :
                config'[k] = IF k \in DOMAIN file.fields THEN file.fields[k]
                                                         ELSE config[k]
          /\ IF "overlay_mode" \in DOMAIN file.fields
             THEN OverlayNumber(config'.overlay_mode) = file.fields["overlay_mode"]
             ELSE config'.overlay_mode = config.overlay_mode
          /\ IF "movement_mode" \in DOMAIN file.fields
             THEN TierPixels(config'.movement_mode) = file.fields["movement_mode"]
             ELSE config'.movement_mode = config.movement_mode
          /\ config'.auto_save = config.auto_save
          /\ config'.config_file = config.config_file]_vars

\* C27: save replaces the document at the path, whatever it was, by the
\* record of the config's x, y, width, height, overlay mode number and
\* tier number, and changes no field of the config.
C27_SaveOverwrites ==
    [][Save => (file' = RecordOf(config) /\ config' = config)]_vars

\* the file holds the record of a config with x = -15, which no document
\* the run started with does
C27_Witness ==
    /\ file = RecordOf(config)
    /\ config.x = -15
    /\ ret = None

----------------------------------------------------------------------------
(* Claims about run_interactive (checked under FairSpecMain and SpecSnap) *)

\* the loop has ended: the main thread is at or past the finally clause
LoopEnded == main_pc \in {"finally", "joining", "save", "done"}

\* C28: whenever the interactive loop ends, by quit or by an error, with
\* auto-save enabled, the run goes on to stop the engine and then to store
\* the configuration as it was when the loop ended: the stored record comes
\* to equal the six values of the config.
C28_EndedLoopPersists ==
    (LoopEnded /\ config.auto_save) ~> (main_pc = "done" /\ file = save(config))

\* C29: once q is pending at the display sink, the orchestrator eventually
\* leaves its loop, whatever the sampling thread does, an empty buffer
\* included.
C29_QuitLeavesLoop == (key = "q") ~> LoopEnded

\* C30: a snapshot writes the frame that this iteration pulled and displayed
\* and takes no further frame out of the buffer.
C30_SnapshotIsDisplayedFrame ==
    [][(m_input /\ key = " ") =>
        /\ snapshot' = polled
        /\ frame_queue' = frame_queue]_vars

----------------------------------------------------------------------------
(* Claims about the keys of _handle_input (checked under SpecKeys) *)

\* the overlay mode the help text of run_interactive promises for each
\* number key: 1 = None ... 5 = Debug
ModeOfKey ==
    ("1" :> "NONE") @@ ("2" :> "MINIMAL") @@ ("3" :> "STANDARD") @@
    ("4" :> "FULL") @@ ("5" :> "DEBUG")

\* the number N on each number key
NumberOfKey == ("1" :> 1) @@ ("2" :> 2) @@ ("3" :> 3) @@ ("4" :> 4) @@ ("5" :> 5)

\* C34: key N in 1..5 sets the overlay mode to ordinal N-1; the border
\* toggle sets the mode to Minimal when it is None and to None from every
\* other mode, so that a second toggle after one from Standard, Full or
\* Debug gives Minimal and not the original mode.  Neither key changes the
\* region or the speed tier.
C34_OverlayKeys ==
    [][/\ \A k \in DOMAIN ModeOfKey :
            key_plain(k) =>
                /\ config'.overlay_mode = ModeOfKey[k]
                /\ OverlayMode[config'.overlay_mode] = NumberOfKey[k] - 1
                /\ RegionOf(config') = RegionOf(config)
                /\ config'.movement_mode = config.movement_mode
       /\ key_plain("b") =>
            /\ config'.overlay_mode =
                  IF config.overlay_mode = "NONE" THEN "MINIMAL" ELSE "NONE"
            /\ RegionOf(config') = RegionOf(config)
            /\ config'.movement_mode = config.movement_mode
            /\ config.overlay_mode \in {"STANDARD", "FULL", "DEBUG"} =>
                  /\ handle_input(config', "b").overlay_mode = "MINIMAL"
                  /\ handle_input(config', "b").overlay_mode # config.overlay_mode]_vars

\* two keys have been handled after a startup without a record, and the
\* mode is Minimal with the region and the tier as they were: the state two
\* toggles from Standard lead to
C34_Witness ==
    /\ cmds >= 2
    /\ file = None
    /\ config = [DefaultConfig EXCEPT !.overlay_mode = "MINIMAL"]

\* width and height of the region are both at least 50
AtFloor(cfg) == cfg.width >= 50 /\ cfg.height >= 50

\* C37 as stated: in every state the orchestrator reaches, from the startup
\* load on, width and height are both at least 50.
C37_SizeFloorEverywhere == ret # None => AtFloor(config)

\* C37, amended: resize and reset leave width and height at least 50
\* whatever they were; move, cycle-speed, the overlay keys, save and
\* auto-detect never take them below 50 once they are there; calibrate
\* sets the size the operator selected, any positive one, and the startup
\* load the size the record holds, without a floor.
C37_FloorKeptByCommands ==
    [][/\ \A k \in PlainKeys :
            key_plain(k) =>
                /\ k \in {"+", "-", "r"} => AtFloor(config')
                /\ AtFloor(config) => AtFloor(config')
       /\ \A boxes \in ContourLists :
            key_a(boxes) => (AtFloor(config) => AtFloor(config'))
       /\ \A roi \in Selections :
            key_c(roi) =>
                \/ RegionOf(config') = RegionOf(config)
                \/ /\ config'.width = roi[3] /\ config'.height = roi[4]
                   /\ roi[3] > 0 /\ roi[4] > 0
       /\ Load =>
            \/ RegionOf(config') = RegionOf(config)
            \/ file.kind = "object"]_vars

\* after a startup that loaded a 10 x 20 region, a shrinking resize has
\* brought both dimensions up to the floor
C37_Witness ==
    /\ file = SmallRecord
    /\ cmds > 0
    /\ config.width = 50 /\ config.height = 50
    /\ config.x = 0

----------------------------------------------------------------------------
(* Claims about OverlayRenderer.render (checked under SpecRender) *)

\* render has returned
Rendered == display_ref # 0

\* the names of the layers on the frame at address a, in drawing order
LayerNames(a) == [i \in 1..Len(heap[a].layers) |-> heap[a].layers[i].name]

\* the layers by rank: 1 border, 2 info panel, 3 guides, 4 debug marker
LayerOrder == <<"border", "info", "guides", "debug">>

\* C14: for every overlay mode m the returned frame carries exactly the
\* layers of rank 1..m, in rank order; so each mode's layers are those of
\* the mode below plus one.
C14_LayersByRank ==
    Rendered =>
        LayerNames(display_ref) = SubSeq(LayerOrder, 1, OverlayMode[config.overlay_mode])

\* render has returned in Debug mode
C14_Witness == Rendered /\ config.overlay_mode = "DEBUG"

\* C15: in mode None render applies no layer and the returned frame has
\* exactly the content of the input.
C15_NonePassThrough ==
    (Rendered /\ config.overlay_mode = "NONE") =>
        heap[display_ref] = InputFrame(config)

C15_Witness == Rendered /\ config.overlay_mode = "NONE"

\* C16: for every overlay mode the input frame is left as it was and the
\* returned frame is a buffer other than the input.
C16_InputKeptAndDistinct ==
    Rendered =>
        /\ heap[frame_ref] = InputFrame(config)
        /\ display_ref # frame_ref

\* C17: whenever a border is drawn its colour is the edge colour (0, 0, 255)
\* iff x <= 0 or y <= 0 or x + width >= screen width or y + height >= screen
\* height, and the normal colour (0, 255, 0) otherwise.
C17_BorderColour ==
    (Rendered /\ OverlayMode[config.overlay_mode] >= 1) =>
        /\ heap[display_ref].layers[1].name = "border"
        /\ heap[display_ref].layers[1].color =
             (IF \/ config.x <= 0 \/ config.y <= 0
                 \/ config.x + config.width >= ScreenW
                 \/ config.y + config.height >= ScreenH
              THEN <<0, 0, 255>> ELSE <<0, 255, 0>>)

\* a border was drawn in the normal colour: the region is strictly inside
C17_Witness ==
    /\ Rendered
    /\ OverlayMode[config.overlay_mode] >= 1
    /\ heap[display_ref].layers[1].color = <<0, 255, 0>>

====
